---- MODULE Spec2Model ----
(***************************************************************************)
(* Model of ip_route_command.py: the record extractor (_extract_output),   *)
(* the validator (_validate_output), the serializer (generate_output) and  *)
(* the pipeline parse_and_transform that chains them.                      *)
(*                                                                         *)
(* A Python str is a sequence of one-character strings.  A Python dict is  *)
(* a sequence of [k, v] entries with pairwise different keys, in insertion *)
(* order.  An element of a Python list is either a dict or a str (the two  *)
(* bracket markers that classic printing puts into the list).              *)
(***************************************************************************)
EXTENDS Integers, Sequences, FiniteSets, TLC

VARIABLES
    header,           \* fsm_like.header
    rows,             \* content_parsed
    pc,               \* position of the interpreter
    output,           \* the one list object: output / output_elements / extracted_result
    r,                \* _extract_output: number of rows already taken by the outer loop
    i,                \* _extract_output: index of the inner loop (0-based)
    result,           \* _extract_output: the dict being filled
    classic_printing, \* generate_output: the mode flag
    gi,               \* generate_output: index of enumerate(output) (0-based)
    final_output,     \* generate_output: the list of tokens being built
    ret,              \* generate_output: the returned str
    ncalls,           \* number of calls of generate_output made so far
    stdout,           \* what print() wrote, one entry per call
    exit_status       \* -1 while the process runs, then its exit status

vars == <<header, rows, pc, output, r, i, result, classic_printing, gi,
          final_output, ret, ncalls, stdout, exit_status>>

----------------------------------------------------------------------------
\* Bounds of the model.

\* Rows the parsing engine returns in a run of parse_and_transform.
MaxRows == 3

\* Rows handed to _extract_output when it is called with rows of any length.
MaxExtractRows == 2

\* Rows in the runs that call generate_output in both modes and repeatedly.
MaxSerializeRows == 2

\* Calls of generate_output on one list.
MaxCalls == 2

----------------------------------------------------------------------------
\* Strings of the program and of its inputs.

gateway == <<"g","a","t","e","w","a","y">>

dest == <<"d","e","s","t">>

dev == <<"d","e","v">>

error_message ==
    <<"E","R","R","O","R"," ","-"," ","I","n","p","u","t"," ","g","i","v","e","n",
      " ","i","s"," ","n","o","t"," ","f","r","o","m"," ","l","i","n","u","x"," ",
      "i","p"," ","r","o","u","t","e"," ","c","o","m","m","a","n","d">>

\* The headers a template may declare (TextFSM refuses duplicate value names).
Headers == {<<gateway>>, <<dest, gateway>>, <<dest, dev>>}

\* The cells the parsing engine may return: '' for a value that did not match.
CellValues == {<<>>, <<"a">>, <<"\"", "\\", "n">>}

SeqsUpTo(S, n) == UNION {[1..k -> S] : k \in 0..n}

\* Rows as TextFSM returns them: one cell per header column.
WellFormedRows(h, n) == SeqsUpTo([1..Len(h) -> CellValues], n)

\* Rows of any length near the header's: one cell short, exact, one cell long.
AnyRows(h, n) ==
    SeqsUpTo(UNION {[1..k -> CellValues] :
                       k \in {m \in {Len(h) - 1, Len(h), Len(h) + 1} : m >= 0}},
             n)

----------------------------------------------------------------------------
\* Python values.

DictElem(d) == [kind |-> "dict", s |-> <<>>, d |-> d]

StrElem(s) == [kind |-> "str", s |-> s, d |-> <<>>]

\* k in d
DictHas(d, k) == \E j \in 1..Len(d) : d[j].k = k

\* d[k], for a key d holds
DictGet(d, k) == d[CHOOSE j \in 1..Len(d) : d[j].k = k].v

DictKeys(d) == {d[j].k : j \in 1..Len(d)}

\* d[k] = v: a key already held keeps its place, a new key goes last.
DictSet(d, k, v) ==
    IF DictHas(d, k)
    THEN [j \in 1..Len(d) |-> IF d[j].k = k THEN [k |-> k, v |-> v] ELSE d[j]]
    ELSE Append(d, [k |-> k, v |-> v])

\* sub in s, for two strs
IsSubstring(sub, s) ==
    \E p \in 1..(Len(s) - Len(sub) + 1) : SubSeq(s, p, p + Len(sub) - 1) = sub

\* key in elem: key membership for a dict, substring test for a str
Contains(elem, key) ==
    IF elem.kind = "dict" THEN DictHas(elem.d, key)
    ELSE Len(key) = 0 \/ IsSubstring(key, elem.s)

RECURSIVE Concat(_)
\* "".join(parts), for a sequence of strs
Concat(parts) ==
    IF Len(parts) = 0 THEN <<>> ELSE Head(parts) \o Concat(Tail(parts))

----------------------------------------------------------------------------
\* _extract_output

\* Mutant of CellKept: every cell is stored, an empty one as a placeholder.
CellKeptAlways(cell) == TRUE

\* row[i] != ''
CellKept(cell) == cell # <<>>

\* result[elements[i]] = row[i]   (i is 0-based)
StoreCell(res, elements, row, idx) == DictSet(res, elements[idx + 1], row[idx + 1])

\* output: list = []; elements = fsm_like.header
ExtractBegin ==
    /\ pc = "extract"
    /\ output' = <<>>
    /\ r' = 0
    /\ pc' = "extract_rows"
    /\ UNCHANGED <<header, rows, i, result, classic_printing, gi, final_output,
                   ret, ncalls, stdout, exit_status>>

\* for row in content_parsed: result: dict = {}
ExtractNextRow ==
    /\ pc = "extract_rows"
    /\ r < Len(rows)
    /\ result' = <<>>
    /\ i' = 0
    /\ pc' = "extract_cells"
    /\ UNCHANGED <<header, rows, output, r, classic_printing, gi, final_output,
                   ret, ncalls, stdout, exit_status>>

\* for i in range(len(elements)): if row[i] != '': result[elements[i]] = row[i]
\* row[i] past the end of the row raises IndexError, which nothing catches:
\* the interpreter ends with status 1 and _extract_output returns nothing.
ExtractCell ==
    /\ pc = "extract_cells"
    /\ i < Len(header)
    /\ LET row == rows[r + 1] IN
         IF i >= Len(row)
         THEN /\ pc' = "raised"
              /\ exit_status' = 1
              /\ UNCHANGED <<result, i>>
         ELSE /\ result' = IF CellKept(row[i + 1])
                           THEN StoreCell(result, header, row, i)
                           ELSE result
              /\ i' = i + 1
              /\ UNCHANGED <<pc, exit_status>>
    /\ UNCHANGED <<header, rows, output, r, classic_printing, gi, final_output,
                   ret, ncalls, stdout>>

\* Mutant of AppendRecord: a record without fields is dropped.
AppendRecordUnlessEmpty(out, res) ==
    IF res = <<>> THEN out ELSE Append(out, DictElem(res))

\* output.append(result)
AppendRecord(out, res) == Append(out, DictElem(res))

ExtractAppend ==
    /\ pc = "extract_cells"
    /\ i = Len(header)
    /\ output' = AppendRecord(output, result)
    /\ r' = r + 1
    /\ pc' = "extract_rows"
    /\ UNCHANGED <<header, rows, i, result, classic_printing, gi, final_output,
                   ret, ncalls, stdout, exit_status>>

\* return output
ExtractReturn ==
    /\ pc = "extract_rows"
    /\ r = Len(rows)
    /\ pc' = "extracted"
    /\ UNCHANGED <<header, rows, output, r, i, result, classic_printing, gi,
                   final_output, ret, ncalls, stdout, exit_status>>

----------------------------------------------------------------------------
\* _validate_output

\* Mutant of Rejects: only the first element is looked at, as the docstring
\* of _validate_output has it.
RejectsOnFirstElement(output_elements) ==
    \/ Len(output_elements) = 0
    \/ ~ Contains(output_elements[1], gateway)

\* not output_elements or not any("gateway" in elem for elem in output_elements)
Rejects(output_elements) ==
    \/ Len(output_elements) = 0
    \/ ~ \E j \in 1..Len(output_elements) : Contains(output_elements[j], gateway)

\* Mutant of Validate: an accepted list is returned enclosed in brackets, as
\* the docstring of _validate_output has it.
ValidateEnclosing ==
    /\ pc = "extracted"
    /\ IF Rejects(output)
       THEN /\ stdout' = Append(stdout, error_message)
            /\ exit_status' = 0
            /\ pc' = "exited"
            /\ UNCHANGED output
       ELSE /\ pc' = "validated"
            /\ output' = <<StrElem(<<"[">>)>> \o Append(output, StrElem(<<"]">>))
            /\ UNCHANGED <<stdout, exit_status>>
    /\ UNCHANGED <<header, rows, r, i, result, classic_printing, gi,
                   final_output, ret, ncalls>>

\* Mutant of Validate: the diagnostic is printed and the function returns
\* instead of ending the process.
ValidateWithoutExit ==
    /\ pc = "extracted"
    /\ stdout' = IF Rejects(output) THEN Append(stdout, error_message) ELSE stdout
    /\ pc' = "validated"
    /\ UNCHANGED <<header, rows, output, r, i, result, classic_printing, gi,
                   final_output, ret, ncalls, exit_status>>

\* print(error_message); exit(0)   or   return output_elements
Validate ==
    /\ pc = "extracted"
    /\ IF Rejects(output)
       THEN /\ stdout' = Append(stdout, error_message)
            /\ exit_status' = 0
            /\ pc' = "exited"
       ELSE /\ pc' = "validated"
            /\ UNCHANGED <<stdout, exit_status>>
    /\ UNCHANGED <<header, rows, output, r, i, result, classic_printing, gi,
                   final_output, ret, ncalls>>

----------------------------------------------------------------------------
\* generate_output

\* repr(s) of a str: single quotes unless s holds ' and no "
PyRepr(s) ==
    LET chars == {s[j] : j \in 1..Len(s)}
        q == IF "'" \in chars /\ "\"" \notin chars THEN "\"" ELSE "'"
        Esc(c) == IF c = "\\" THEN <<"\\", "\\">>
                  ELSE IF c = q THEN <<"\\", q>>
                  ELSE IF c = "\n" THEN <<"\\", "n">>
                  ELSE IF c = "\t" THEN <<"\\", "t">>
                  ELSE IF c = "\r" THEN <<"\\", "r">>
                  ELSE <<c>>
    IN <<q>> \o Concat([j \in 1..Len(s) |-> Esc(s[j])]) \o <<q>>

\* str(d) of a dict: {'k': 'v', 'k2': 'v2'}
PyDictStr(d) ==
    <<"{">>
    \o Concat([j \in 1..Len(d) |->
                 (IF j > 1 THEN <<",", " ">> ELSE <<>>)
                 \o PyRepr(d[j].k) \o <<":", " ">> \o PyRepr(d[j].v)])
    \o <<"}">>

\* str(j) of a list element
PyStr(elem) == IF elem.kind = "str" THEN elem.s ELSE PyDictStr(elem.d)

\* Mutant of AddBrackets: a list that already carries the brackets is left alone.
AddBracketsOnce(out) ==
    IF Len(out) >= 2 /\ out[1] = StrElem(<<"[">>) /\ out[Len(out)] = StrElem(<<"]">>)
    THEN out
    ELSE <<StrElem(<<"[">>)>> \o Append(out, StrElem(<<"]">>))

\* output.append("]"); output.insert(0, "[")
AddBrackets(out) == <<StrElem(<<"[">>)>> \o Append(out, StrElem(<<"]">>))

\* Mutant of CommaBefore: the bound one lower, so the last record gets no comma.
CommaBeforeButLast(idx, len) == 1 < idx /\ idx < len - 2

\* Mutant of CommaBefore: the lower bound one lower, so the first record gets one.
CommaBeforeFromFirst(idx, len) == 0 < idx /\ idx < len - 1

\* 1 < i < len(output) - 1   (i is 0-based)
CommaBefore(idx, len) == 1 < idx /\ idx < len - 1

\* "".join(str(j) for j in final_output)
JoinTokens(tokens) == Concat([j \in 1..Len(tokens) |-> PyStr(tokens[j])])

\* Mutant of JsonStr: the characters are written between the quotes unescaped.
JsonStrUnescaped(s) == <<"\"">> \o s \o <<"\"">>

\* json.dumps of a str (ensure_ascii): the escapes of the characters modelled
JsonStr(s) ==
    LET Esc(c) == IF c = "\"" THEN <<"\\", "\"">>
                  ELSE IF c = "\\" THEN <<"\\", "\\">>
                  ELSE IF c = "\n" THEN <<"\\", "n">>
                  ELSE IF c = "\r" THEN <<"\\", "r">>
                  ELSE IF c = "\t" THEN <<"\\", "t">>
                  ELSE <<c>>
    IN <<"\"">> \o Concat([j \in 1..Len(s) |-> Esc(s[j])]) \o <<"\"">>

\* json.dumps of a dict one level inside the array, indent=2
JsonDict(d) ==
    IF Len(d) = 0 THEN <<"{", "}">>
    ELSE <<"{">>
         \o Concat([j \in 1..Len(d) |->
                      (IF j > 1 THEN <<",">> ELSE <<>>)
                      \o <<"\n", " ", " ", " ", " ">>
                      \o JsonStr(d[j].k) \o <<":", " ">> \o JsonStr(d[j].v)])
         \o <<"\n", " ", " ", "}">>

JsonElem(elem) == IF elem.kind = "str" THEN JsonStr(elem.s) ELSE JsonDict(elem.d)

\* json.dumps(output, indent=2)
JsonDumps(out) ==
    IF Len(out) = 0 THEN <<"[", "]">>
    ELSE <<"[">>
         \o Concat([j \in 1..Len(out) |->
                      (IF j > 1 THEN <<",">> ELSE <<>>)
                      \o <<"\n", " ", " ">> \o JsonElem(out[j])])
         \o <<"\n", "]">>

\* The call: classic printing puts the brackets into the list it was given and
\* starts the loop; otherwise json.dumps returns at once.
GenerateCall(from, cp) ==
    /\ pc \in from
    /\ ncalls < MaxCalls
    /\ ncalls' = ncalls + 1
    /\ classic_printing' = cp
    /\ IF cp
       THEN /\ output' = AddBrackets(output)
            /\ final_output' = <<>>
            /\ gi' = 0
            /\ pc' = "generate_loop"
            /\ UNCHANGED ret
       ELSE /\ ret' = JsonDumps(output)
            /\ pc' = "generated"
            /\ UNCHANGED <<output, final_output, gi>>
    /\ UNCHANGED <<header, rows, r, i, result, stdout, exit_status>>

\* for i, e in enumerate(output): if 1 < i < len(output) - 1:
\*     final_output.append(","); final_output.append(e)
GenerateStep ==
    /\ pc = "generate_loop"
    /\ gi < Len(output)
    /\ final_output' =
         IF CommaBefore(gi, Len(output))
         THEN final_output \o <<StrElem(<<",">>), output[gi + 1]>>
         ELSE Append(final_output, output[gi + 1])
    /\ gi' = gi + 1
    /\ UNCHANGED <<header, rows, pc, output, r, i, result, classic_printing, ret,
                   ncalls, stdout, exit_status>>

\* return "".join(str(j) for j in final_output)
GenerateJoin ==
    /\ pc = "generate_loop"
    /\ gi = Len(output)
    /\ ret' = JoinTokens(final_output)
    /\ pc' = "generated"
    /\ UNCHANGED <<header, rows, output, r, i, result, classic_printing, gi,
                   final_output, ncalls, stdout, exit_status>>

----------------------------------------------------------------------------
\* parse_and_transform

\* print(output_with_needed_structure), then the interpreter ends with status 0
PrintOutput ==
    /\ pc = "generated"
    /\ stdout' = Append(stdout, ret)
    /\ exit_status' = 0
    /\ pc' = "done"
    /\ UNCHANGED <<header, rows, output, r, i, result, classic_printing, gi,
                   final_output, ret, ncalls>>

\* The state when _extract_output is entered with the parsing engine's result.
InitWith(h, content_parsed) ==
    /\ header = h
    /\ rows = content_parsed
    /\ pc = "extract"
    /\ output = <<>>
    /\ r = 0
    /\ i = 0
    /\ result = <<>>
    /\ classic_printing = TRUE
    /\ gi = 0
    /\ final_output = <<>>
    /\ ret = <<>>
    /\ ncalls = 0
    /\ stdout = <<>>
    /\ exit_status = -1

Init ==
    \E h \in Headers : \E content_parsed \in WellFormedRows(h, MaxRows) :
        InitWith(h, content_parsed)

\* generate_output(_validate_output(extracted_result), classic_printing=True)
Next ==
    \/ ExtractBegin
    \/ ExtractNextRow
    \/ ExtractCell
    \/ ExtractAppend
    \/ ExtractReturn
    \/ Validate
    \/ GenerateCall({"validated"}, TRUE)
    \/ GenerateStep
    \/ GenerateJoin
    \/ PrintOutput

Spec == Init /\ [][Next]_vars

----------------------------------------------------------------------------
\* _extract_output called with rows of any length.

InitExtract ==
    \E h \in Headers : \E content_parsed \in AnyRows(h, MaxExtractRows) :
        InitWith(h, content_parsed)

NextExtract ==
    \/ ExtractBegin
    \/ ExtractNextRow
    \/ ExtractCell
    \/ ExtractAppend
    \/ ExtractReturn

SpecExtract == InitExtract /\ [][NextExtract]_vars

----------------------------------------------------------------------------
\* The three functions called one after the other on one list: generate_output
\* in either mode, on the extractor's or on the validator's result, and again
\* on the list it was given before.

InitSerialize ==
    \E h \in Headers : \E content_parsed \in WellFormedRows(h, MaxSerializeRows) :
        InitWith(h, content_parsed)

NextSerialize ==
    \/ ExtractBegin
    \/ ExtractNextRow
    \/ ExtractCell
    \/ ExtractAppend
    \/ ExtractReturn
    \/ Validate
    \/ \E cp \in BOOLEAN : GenerateCall({"extracted", "validated", "generated"}, cp)
    \/ GenerateStep
    \/ GenerateJoin

SpecSerialize == InitSerialize /\ [][NextSerialize]_vars

----------------------------------------------------------------------------
\* Properties of _extract_output (checked under SpecExtract).

\* The columns of a row whose cell is not empty.
FilledColumns(row) == {j \in 1..Len(header) : j <= Len(row) /\ row[j] # <<>>}

\* C1. Sparse extraction: the record built from a row as long as the header has
\* exactly the keys header[j] of the row's non-empty cells, each mapped to its
\* cell; an empty cell gives no key and no value stored is empty.
C1_SparseExtraction ==
    \A k \in 1..Len(output) :
        Len(rows[k]) = Len(header) =>
            LET d == output[k].d IN
            /\ output[k].kind = "dict"
            /\ DictKeys(d) = {header[j] : j \in FilledColumns(rows[k])}
            /\ Len(d) = Cardinality(DictKeys(d))
            /\ \A j \in FilledColumns(rows[k]) : DictGet(d, header[j]) = rows[k][j]
            /\ \A e \in 1..Len(d) : d[e].v # <<>>

\* A returned record set with a row that has an empty and a non-empty cell.
C1_Witness ==
    /\ pc = "extracted"
    /\ \E k \in 1..Len(rows) :
         /\ Len(rows[k]) = Len(header)
         /\ Len(header) = 2
         /\ rows[k][1] = <<>>
         /\ rows[k][2] # <<>>
         /\ Len(output[k].d) = 1

\* C4. Schema check, as claimed: _extract_output returns no record set when some
\* row is shorter or longer than the header.
C4_SchemaMismatchFails ==
    pc = "extracted" => \A k \in 1..Len(rows) : Len(rows[k]) = Len(header)

\* C5. Order preservation: the records appended so far are one per row taken, in
\* row order; every field of record k comes from row k, in column order; a row
\* of empty cells gives an empty record at its place; the returned list has one
\* record per row.
C5_OrderPreserved ==
    /\ pc \in {"extract_rows", "extract_cells", "extracted"} => Len(output) = r
    /\ pc = "extracted" => Len(output) = Len(rows)
    /\ \A k \in 1..Len(output) :
         LET d == output[k].d IN
         /\ \A e \in 1..Len(d) :
              \E j \in FilledColumns(rows[k]) : d[e].k = header[j] /\ d[e].v = rows[k][j]
         /\ \A e1, e2 \in 1..Len(d) :
              e1 < e2 =>
                \E j1, j2 \in 1..Len(header) :
                    j1 < j2 /\ d[e1].k = header[j1] /\ d[e2].k = header[j2]
         /\ FilledColumns(rows[k]) = {} => d = <<>>
         /\ FilledColumns(rows[k]) # {} => d # <<>>

\* Two rows returned as two records: the first of empty cells, the second not.
C5_Witness ==
    /\ pc = "extracted"
    /\ Len(rows) = 2
    /\ Len(header) = 2
    /\ rows[1] = <<<<>>, <<>>>>
    /\ rows[2] = <<<<"a">>, <<>>>>
    /\ output = <<DictElem(<<>>), DictElem(<<[k |-> header[1], v |-> <<"a">>]>>)>>

----------------------------------------------------------------------------
\* Properties of the validator and of the pipeline (checked under Spec).

\* No record of the list has the key "gateway".
NoGatewayAnywhere(list) == \A k \in 1..Len(list) : gateway \notin DictKeys(list[k].d)

Stage(p) ==
    CASE p \in {"extract", "extract_rows", "extract_cells", "extracted"} -> 1
      [] p = "validated" -> 2
      [] p \in {"generate_loop", "generated"} -> 3
      [] p \in {"done", "exited", "raised"} -> 4

\* C7. Pipeline ordering and termination: the stages run in the order
\* extractor, validator, serializer, none entered twice or skipped; the
\* formatted output is printed once, after the validator accepted; a run the
\* validator rejects never calls the serializer, prints the diagnostic alone
\* and ends with status 0.
C7_PipelineOrder ==
    /\ [][/\ Stage(pc') \in {Stage(pc), Stage(pc) + 1} \/ (pc = "extracted" /\ pc' = "exited")
          /\ pc' = "validated" => pc = "extracted"
          /\ pc' \in {"generate_loop", "generated"} =>
                pc \in {"validated", "generate_loop"}
          /\ pc' = "done" => pc = "generated"
          /\ pc' = "exited" => pc = "extracted"
          /\ stdout' # stdout => pc' \in {"done", "exited"}]_vars
    /\ [](pc = "done" =>
            /\ stdout = <<ret>>
            /\ ncalls = 1
            /\ exit_status = 0
            /\ ~ NoGatewayAnywhere(SubSeq(output, 2, Len(output) - 1)))
    /\ [](pc = "exited" =>
            /\ stdout = <<error_message>>
            /\ ncalls = 0
            /\ final_output = <<>>
            /\ ret = <<>>
            /\ exit_status = 0)
    /\ [](pc \notin {"done", "exited"} => stdout = <<>>)

\* A run that printed the formatted output of two records and ended.
C7_Witness ==
    /\ pc = "done"
    /\ Len(rows) = 2
    /\ stdout = <<ret>>
    /\ ret # <<>>
    /\ exit_status = 0

----------------------------------------------------------------------------
\* Properties of classic printing (checked under Spec).

LeftBracket == StrElem(<<"[">>)

RightBracket == StrElem(<<"]">>)

Comma == StrElem(<<",">>)

\* How many elements of a sequence of tokens are the token tok.
Count(tokens, tok) == Cardinality({j \in 1..Len(tokens) : tokens[j] = tok})

\* C3. Classic-mode shape: for the n >= 1 records handed to generate_output, the
\* tokens it joins are "[" r1 "," r2 "," ... "," rn "]": a bracket at each end
\* and no other, n - 1 commas, one between every two adjacent records, none
\* after "[" and none before "]"; the str returned is the tokens' texts joined.
C3_ClassicShape ==
    (pc \in {"generated", "done"} /\ classic_printing /\ ncalls = 1) =>
        LET recs == SubSeq(output, 2, Len(output) - 1)
            n == Len(recs)
        IN  n >= 1 =>
            /\ Len(final_output) = 2 * n + 1
            /\ final_output[1] = LeftBracket
            /\ final_output[2 * n + 1] = RightBracket
            /\ \A k \in 1..n : final_output[2 * k] = recs[k]
            /\ \A k \in 1..(n - 1) : final_output[2 * k + 1] = Comma
            /\ Count(final_output, Comma) = n - 1
            /\ Count(final_output, LeftBracket) = 1
            /\ Count(final_output, RightBracket) = 1
            /\ ret = <<"[">>
                     \o Concat([k \in 1..n |->
                                  (IF k > 1 THEN <<",">> ELSE <<>>) \o PyDictStr(recs[k].d)])
                     \o <<"]">>

\* Three records printed with two commas.
C3_Witness ==
    /\ pc = "generated"
    /\ classic_printing
    /\ Len(rows) = 3
    /\ Len(final_output) = 7
    /\ Count(final_output, Comma) = 2

\* A step of the loop put a comma in front of the element it took.
CommaInserted ==
    /\ Len(final_output') = Len(final_output) + 2
    /\ final_output'[Len(final_output) + 1] = Comma
    /\ final_output'[Len(final_output) + 2] = output[gi + 1]

\* A step of the loop took the element without a comma.
NoCommaInserted ==
    /\ Len(final_output') = Len(final_output) + 1
    /\ final_output'[Len(final_output) + 1] = output[gi + 1]

\* C10, as claimed: the loop puts a comma before the element at index i of the
\* bracketed list of length L exactly when 1 < i < L - 2.
C10_CommaRuleAsClaimed ==
    [][(pc = "generate_loop" /\ gi < Len(output)) =>
          IF 1 < gi /\ gi < Len(output) - 2 THEN CommaInserted ELSE NoCommaInserted]_vars

\* C10, amended: the loop puts a comma before the element at index i of the
\* bracketed list of length L exactly when 1 < i < L - 1: the two brackets and
\* the first record get none, every later record, the last one too, gets one.
C10_CommaRule ==
    [][(pc = "generate_loop" /\ gi < Len(output)) =>
          IF 1 < gi /\ gi < Len(output) - 1 THEN CommaInserted ELSE NoCommaInserted]_vars

\* The loop has just put a comma before the last of three records.
C10_Witness ==
    /\ pc = "generate_loop"
    /\ Len(output) = 5
    /\ gi = 4
    /\ Len(final_output) = 6
    /\ final_output[5] = Comma
    /\ final_output[6] = output[4]

----------------------------------------------------------------------------
\* Properties of generate_output called in either mode, once or again
\* (checked under SpecSerialize).

At(s, p) == IF p \in 1..Len(s) THEN s[p] ELSE ""

JsonFail == [ok |-> FALSE, val |-> <<>>, next |-> 0]

RECURSIVE JsonSkipSpace(_, _)
JsonSkipSpace(s, p) ==
    IF At(s, p) \in {" ", "\n", "\r", "\t"} THEN JsonSkipSpace(s, p + 1) ELSE p

RECURSIVE JsonReadStr(_, _, _)
\* The str whose opening quote was just before p; acc holds what was read.
JsonReadStr(s, p, acc) ==
    LET c == At(s, p) IN
    IF c = "" \/ c \in {"\n", "\r", "\t"} THEN JsonFail
    ELSE IF c = "\"" THEN [ok |-> TRUE, val |-> acc, next |-> p + 1]
    ELSE IF c = "\\" THEN
        LET e == At(s, p + 1) IN
        IF e \in {"\"", "\\", "/"} THEN JsonReadStr(s, p + 2, Append(acc, e))
        ELSE IF e = "n" THEN JsonReadStr(s, p + 2, Append(acc, "\n"))
        ELSE IF e = "r" THEN JsonReadStr(s, p + 2, Append(acc, "\r"))
        ELSE IF e = "t" THEN JsonReadStr(s, p + 2, Append(acc, "\t"))
        ELSE JsonFail
    ELSE JsonReadStr(s, p + 1, Append(acc, c))

RECURSIVE JsonReadMembers(_, _, _)
\* The members of an object from p on, where a key must start.
JsonReadMembers(s, p, acc) ==
    IF At(s, p) # "\"" THEN JsonFail
    ELSE LET key == JsonReadStr(s, p + 1, <<>>) IN
         IF ~ key.ok THEN JsonFail
         ELSE LET colon == JsonSkipSpace(s, key.next)
                  start == JsonSkipSpace(s, colon + 1)
              IN  IF At(s, colon) # ":" \/ At(s, start) # "\"" THEN JsonFail
                  ELSE LET value == JsonReadStr(s, start + 1, <<>>) IN
                       IF ~ value.ok THEN JsonFail
                       ELSE LET after == JsonSkipSpace(s, value.next)
                                held == DictSet(acc, key.val, value.val)
                            IN  IF At(s, after) = ","
                                THEN JsonReadMembers(s, JsonSkipSpace(s, after + 1), held)
                                ELSE IF At(s, after) = "}"
                                THEN [ok |-> TRUE, val |-> held, next |-> after + 1]
                                ELSE JsonFail

\* The element that starts at p: an object or a str.
JsonReadElem(s, p) ==
    IF At(s, p) = "\"" THEN
        LET str == JsonReadStr(s, p + 1, <<>>) IN
        IF str.ok THEN [ok |-> TRUE, val |-> StrElem(str.val), next |-> str.next]
        ELSE JsonFail
    ELSE IF At(s, p) = "{" THEN
        LET first == JsonSkipSpace(s, p + 1) IN
        IF At(s, first) = "}"
        THEN [ok |-> TRUE, val |-> DictElem(<<>>), next |-> first + 1]
        ELSE LET obj == JsonReadMembers(s, first, <<>>) IN
             IF obj.ok THEN [ok |-> TRUE, val |-> DictElem(obj.val), next |-> obj.next]
             ELSE JsonFail
    ELSE JsonFail

RECURSIVE JsonReadElems(_, _, _)
JsonReadElems(s, p, acc) ==
    LET elem == JsonReadElem(s, p) IN
    IF ~ elem.ok THEN JsonFail
    ELSE LET after == JsonSkipSpace(s, elem.next)
             held == Append(acc, elem.val)
         IN  IF At(s, after) = ","
             THEN JsonReadElems(s, JsonSkipSpace(s, after + 1), held)
             ELSE IF At(s, after) = "]"
             THEN [ok |-> TRUE, val |-> held, next |-> after + 1]
             ELSE JsonFail

\* json.loads(s) of a text that should hold one array and nothing else.
JsonLoads(s) ==
    LET open == JsonSkipSpace(s, 1) IN
    IF At(s, open) # "[" THEN JsonFail
    ELSE LET first == JsonSkipSpace(s, open + 1)
             arr == IF At(s, first) = "]"
                    THEN [ok |-> TRUE, val |-> <<>>, next |-> first + 1]
                    ELSE JsonReadElems(s, first, <<>>)
         IN  IF arr.ok /\ JsonSkipSpace(s, arr.next) = Len(s) + 1 THEN arr ELSE JsonFail

\* The key/value pairs of a dict.
Pairs(d) == {<<d[j].k, d[j].v>> : j \in 1..Len(d)}

\* A list of records alone, each holding str values that are not empty.
IsRecordSet(list) ==
    \A k \in 1..Len(list) :
        /\ list[k].kind = "dict"
        /\ \A e \in 1..Len(list[k].d) : list[k].d[e].v # <<>>

\* C8. JSON round-trip: the str generate_output returns in Json mode for a list
\* of records parses as a JSON array with one object per record, in the
\* records' order, each object holding exactly its record's key/value pairs.
C8_JsonRoundTrip ==
    (pc = "generated" /\ ~ classic_printing /\ IsRecordSet(output)) =>
        LET parsed == JsonLoads(ret) IN
        /\ parsed.ok
        /\ Len(parsed.val) = Len(output)
        /\ \A k \in 1..Len(output) :
             /\ parsed.val[k].kind = "dict"
             /\ Pairs(parsed.val[k].d) = Pairs(output[k].d)
             /\ Len(parsed.val[k].d) = Len(output[k].d)

\* Two records serialized as JSON, one with two fields, one value holding a
\* quote and a backslash.
C8_Witness ==
    /\ pc = "generated"
    /\ ~ classic_printing
    /\ Len(output) = 2
    /\ IsRecordSet(output)
    /\ Len(output[1].d) = 2
    /\ output[1].d[2].v = <<"\"", "\\", "n">>
    /\ output[2].d # output[1].d
    /\ JsonLoads(ret).ok

====
